---- MODULE Spec2Model ----
(***************************************************************************)
(* Model of blivet/populator/helpers/disk.py: the disk populator helpers   *)
(* (DiskDevicePopulator and its five specialisations), driven by the       *)
(* device tree's handle_device dispatch.                                   *)
(*                                                                         *)
(* The helpers' match / _get_kwargs / run methods are translated from      *)
(* disk.py.  The collaborators they call (udev accessors, the iscsi        *)
(* registry, blockdev, DeviceTree.handle_device / _add_device /            *)
(* get_device_by_name) live outside disk.py and are modelled at their      *)
(* interface as the specification describes it.                            *)
(*                                                                         *)
(* Only log.error records are kept in the log; log.info lines carry no     *)
(* state that any helper reads.                                            *)
(***************************************************************************)
EXTENDS Naturals, Sequences, FiniteSets, TLC

VARIABLES
    devices,       \* the device tree's devices, in insertion order
    initiator,     \* iscsi.initiator, the local initiator name
    viaRecursion,  \* names that were inserted by a nested handle_device call
    last           \* the last call: its input, what it did, its outcome

vars == <<devices, initiator, viaRecursion, last>>

\* Bound on the nesting of handle_device calls (the interpreter's recursion
\* limit, scaled down): a call that would nest deeper raises RecursionError.
MaxDepth == 3

----------------------------------------------------------------------------
(* Python values *)

NoRecord   == [absent |-> TRUE]      \* udev.get_device(...) found nothing
NotFetched == [fetched |-> FALSE]    \* no container record was asked for
NoKwargs   == [none |-> TRUE]        \* a _get_kwargs that returned None
NoDevice   == [nodevice |-> TRUE]    \* get_device_by_name(...) returned None
NoneNode   == [null |-> TRUE]        \* kwargs["node"] = None
NoHelper   == "NoHelper"             \* no helper class matched

Max(a, b) == IF a >= b THEN a ELSE b

----------------------------------------------------------------------------
(* Attribute records (udev data) *)

ContainerNames == {"md0", "md1"}

DasdAttrs == <<"readonly", "use_diag", "erplog", "failfast">>
ZfcpAttrs == <<"hba_id", "wwpn", "fcp_lun">>

SeqToSet(s) == {s[i] : i \in 1..Len(s)}

ContainerPath(c) == <<"/dev/md", c>>
NoPath == <<>>

BaseRecord(n) ==
    [name |-> n,
     sysfs_path |-> <<"/sys/class/block", n>>,
     serial |-> <<"serial", n>>,
     vendor |-> <<"vendor", n>>,
     model |-> <<"model", n>>,
     bus |-> "scsi",
     major |-> 8,
     minor |-> 0,
     is_disk |-> TRUE,
     is_iscsi |-> FALSE,
     iscsi_initiator |-> "",
     iscsi_name |-> "iqn.target",
     iscsi_address |-> "10.0.0.1",
     iscsi_port |-> 3260,
     iscsi_nic |-> "iface0",
     is_fcoe |-> FALSE,
     fcoe_nic |-> "eth1",
     fcoe_identifier |-> "fcoe-id",
     md_container |-> NoPath,
     md_level |-> "raid1",
     md_devices |-> 2,
     md_uuid |-> <<"uuid", n>>,
     is_dasd |-> FALSE,
     dasd_bus_id |-> "0.0.0200",
     dasd_flags |-> [a \in SeqToSet(DasdAttrs) |-> a = "use_diag"],
     is_zfcp |-> FALSE,
     zfcp_attrs |-> [a \in SeqToSet(ZfcpAttrs) |-> <<a, n>>]]

Without(f, k) == [a \in DOMAIN f \ {k} |-> f[a]]

RecordInitiators == {"", "iqn.local", "iqn.other"}
LocalInitiators == {"", "iqn.local"}

AsIscsi(r)  == {[r EXCEPT !.is_iscsi = TRUE, !.iscsi_initiator = i] : i \in RecordInitiators}
AsFcoe(r)   == {[r EXCEPT !.is_fcoe = TRUE]}
AsMd(r)     == {[r EXCEPT !.md_container = ContainerPath(c)] : c \in ContainerNames}
AsDasd(r)   == {[r EXCEPT !.is_dasd = TRUE],
                [r EXCEPT !.is_dasd = TRUE, !.dasd_flags = Without(@, "erplog")]}
AsZfcp(r)   == {[r EXCEPT !.is_zfcp = TRUE],
                [r EXCEPT !.is_zfcp = TRUE, !.zfcp_attrs = Without(@, "wwpn")]}

Over(S, F(_)) == UNION {F(r) : r \in S}

\* Records whose protocol attributes say one kind, or two kinds at once.
KindRecords(n) ==
    LET b == {BaseRecord(n)}
    IN  b \cup Over(b, AsIscsi) \cup Over(b, AsFcoe) \cup Over(b, AsMd)
          \cup Over(b, AsDasd) \cup Over(b, AsZfcp)
          \cup Over(Over(b, AsIscsi), AsFcoe)
          \cup Over(Over(b, AsMd), AsDasd)
          \cup Over(Over(b, AsDasd), AsZfcp)

NonDisk(r) == [r EXCEPT !.is_disk = FALSE]

NonDiskRecords(n) ==
    LET b == {BaseRecord(n)}
    IN  {NonDisk(r) : r \in
            b \cup {[BaseRecord(n) EXCEPT !.is_iscsi = TRUE, !.iscsi_initiator = "iqn.local"]}
              \cup Over(b, AsFcoe)
              \cup {[BaseRecord(n) EXCEPT !.md_container = ContainerPath("md0")]}
              \cup {[BaseRecord(n) EXCEPT !.is_dasd = TRUE]}
              \cup {[BaseRecord(n) EXCEPT !.is_zfcp = TRUE]}}

\* The records handed to handle_device by the enumeration loop.
Records ==
    KindRecords("sda") \cup NonDiskRecords("sda")
      \cup UNION {{BaseRecord(c)} \cup AsMd(BaseRecord(c)) : c \in ContainerNames}

Other(c) == IF c = "md0" THEN "md1" ELSE "md0"

\* What udev may hold at the sysfs node of container c.
ContainerRecords(c) ==
    {NoRecord,
     NonDisk(BaseRecord(c)),
     BaseRecord(c),
     BaseRecord(Other(c)),
     [BaseRecord(c) EXCEPT !.md_container = ContainerPath(Other(c))],
     [BaseRecord(c) EXCEPT !.md_container = ContainerPath(c)]}

NodeFromName(name) == IF name = "md0" THEN "md126" ELSE "md127"

Nodes == {NodeFromName(c) : c \in ContainerNames}

NameOfNode(node) == CHOOSE c \in ContainerNames : NodeFromName(c) = node

Envs == {e \in [Nodes -> UNION {ContainerRecords(c) : c \in ContainerNames}] :
            \A nd \in Nodes : e[nd] \in ContainerRecords(NameOfNode(nd))}

EmptyEnv == [nd \in Nodes |-> NoRecord]

\* udev is only consulted while resolving an MD container: the node of the
\* record's container is read, and the other node only when the record found
\* there names the other container as its own.  Nodes that cannot be read are
\* left empty.
EnvsFor(rec) ==
    IF rec.is_disk /\ rec.md_container # NoPath
    THEN LET c == rec.md_container[Len(rec.md_container)]
             o == Other(c)
         IN  {e \in Envs :
                 \/ e[NodeFromName(o)] = NoRecord
                 \/ /\ e[NodeFromName(c)] # NoRecord
                    /\ e[NodeFromName(c)].md_container = ContainerPath(o)}
    ELSE {EmptyEnv}

----------------------------------------------------------------------------
(* Collaborators outside disk.py *)

\* udev.get_device(sysfs_path): the record at that sysfs node, or nothing.
UdevGetDevice(env, node) == env[node]

\* devices.device_path_to_name: the last component of the path.
DevicePathToName(path) == path[Len(path)]

Names(devs) == {devs[i].name : i \in 1..Len(devs)}

\* DeviceTree.get_device_by_name
GetDeviceByName(devs, name) ==
    IF name \in Names(devs)
    THEN devs[CHOOSE i \in 1..Len(devs) : devs[i].name = name]
    ELSE NoDevice

\* A mutation of _add_device: appends without looking for the name.
AddDeviceBlind(devs, device) ==
    [devices |-> Append(devs, device), exc |-> ""]

\* DeviceTree._add_device: fails when the name is already present.
AddDevice(devs, device) ==
    IF device.name \in Names(devs)
    THEN [devices |-> devs, exc |-> "DuplicateInsertion"]
    ELSE [devices |-> Append(devs, device), exc |-> ""]

\* iscsi.get_node(target, address, port, nic)
IscsiGetNode(target, address, port, nic) ==
    [name |-> target, address |-> address, port |-> port, iface |-> nic]

\* iscsi.ibft_nodes: no node was booted from firmware.
IscsiIbftNodes == {}

\* iscsi.ifaces.get(iface, iface): the interface's alias, or its own name.
IscsiIfaces == [iface0 |-> "eth0"]
IscsiIfaceAlias(iface) ==
    IF iface \in DOMAIN IscsiIfaces THEN IscsiIfaces[iface] ELSE iface

\* udev.device_get_dasd_flag / device_get_zfcp_attribute: a missing attribute
\* is an extraction failure.
HasAll(attrs, names) == SeqToSet(names) \subseteq DOMAIN attrs

----------------------------------------------------------------------------
(* Helper classes *)

Disk  == "DiskDevicePopulator"
Iscsi == "iScsiDevicePopulator"
Fcoe  == "FCoEDevicePopulator"
MdBios == "MDBiosRaidDevicePopulator"
Dasd  == "DASDDevicePopulator"
Zfcp  == "ZFCPDevicePopulator"

\* The helpers in the order the file defines them.
Helpers == <<Disk, Iscsi, Fcoe, MdBios, Dasd, Zfcp>>
Specialized == {Iscsi, Fcoe, MdBios, Dasd, Zfcp}

DeviceClass(cls) ==
    CASE cls = Disk   -> "DiskDevice"
      [] cls = Iscsi  -> "iScsiDiskDevice"
      [] cls = Fcoe   -> "FcoeDiskDevice"
      [] cls = MdBios -> "MDBiosRaidArrayDevice"
      [] cls = Dasd   -> "DASDDevice"
      [] cls = Zfcp   -> "ZFCPDiskDevice"

\* A mutation of the priorities: the subclasses inherit the base priority.
PriorityInherited(cls) == 10

PriorityOf(cls) == IF cls = Disk THEN 10 ELSE 20

\* A mutation of DiskDevicePopulator.match: everything is a disk.
DiskMatchAnything(data) == TRUE

DiskMatch(data) == data.is_disk

\* A mutation of iScsiDevicePopulator.match: the initiators are not compared.
IscsiMatchNoCompare(data, ini) ==
    DiskMatch(data) /\ data.is_iscsi /\ ini # ""

IscsiMatch(data, ini) ==
    DiskMatch(data) /\ data.is_iscsi /\ ini # "" /\ ini = data.iscsi_initiator

FcoeMatch(data) == DiskMatch(data) /\ data.is_fcoe

MdBiosMatch(data) == DiskMatch(data) /\ data.md_container # NoPath

DasdMatch(data) == DiskMatch(data) /\ data.is_dasd

ZfcpMatch(data) == DiskMatch(data) /\ data.is_zfcp

Match(cls, data, ini) ==
    CASE cls = Disk   -> DiskMatch(data)
      [] cls = Iscsi  -> IscsiMatch(data, ini)
      [] cls = Fcoe   -> FcoeMatch(data)
      [] cls = MdBios -> MdBiosMatch(data)
      [] cls = Dasd   -> DasdMatch(data)
      [] cls = Zfcp   -> ZfcpMatch(data)

\* The dispatch of handle_device: among the helpers that match, the first in
\* registration order of those with the highest priority.
GetDeviceHelper(data, ini) ==
    LET matching == {i \in 1..Len(Helpers) : Match(Helpers[i], data, ini)}
        best == {i \in matching :
                    \A j \in matching : PriorityOf(Helpers[j]) <= PriorityOf(Helpers[i])}
    IN  IF matching = {} THEN NoHelper
        ELSE Helpers[CHOOSE i \in best : \A j \in best : i <= j]

----------------------------------------------------------------------------
(* _get_kwargs *)

Del(kwargs, keys) == [k \in DOMAIN kwargs \ keys |-> kwargs[k]]

\* kwargs[k] = v for every k of new
Set(kwargs, new) == new @@ kwargs

DiskGetKwargs(data, cls) ==
    LET kwargs == [sysfs_path |-> data.sysfs_path,
                   serial |-> data.serial,
                   vendor |-> data.vendor,
                   model |-> data.model,
                   bus |-> data.bus]
    IN  IF DeviceClass(cls) = "DiskDevice"
        THEN Set(kwargs, [major |-> data.major, minor |-> data.minor])
        ELSE kwargs

\* A mutation of iScsiDevicePopulator._get_kwargs: the node is looked up
\* whatever the initiator is.
IscsiGetKwargsAlwaysNode(data, ini) ==
    LET kwargs == DiskGetKwargs(data, Iscsi)
        node == IscsiGetNode(data.iscsi_name, data.iscsi_address,
                             data.iscsi_port, data.iscsi_nic)
    IN  Set(kwargs, [initiator |-> data.iscsi_initiator,
                     node |-> node,
                     ibft |-> node \in IscsiIbftNodes,
                     nic |-> IscsiIfaceAlias(node.iface)])

IscsiGetKwargs(data, ini) ==
    LET kwargs == DiskGetKwargs(data, Iscsi)
        name == data.name
        target == data.iscsi_name
        address == data.iscsi_address
        port == data.iscsi_port
        nic == data.iscsi_nic
        k1 == Set(kwargs, [initiator |-> data.iscsi_initiator])
    IN  IF data.iscsi_initiator = ini
        THEN LET node == IscsiGetNode(target, address, port, nic)
             IN  Set(k1, [node |-> node,
                          ibft |-> node \in IscsiIbftNodes,
                          nic |-> IscsiIfaceAlias(node.iface)])
        ELSE Set(k1, [node |-> NoneNode,
                      ibft |-> FALSE,
                      nic |-> "offload:not_accessible_via_iscsiadm",
                      fw_address |-> address,
                      fw_port |-> port,
                      fw_name |-> name])

FcoeGetKwargs(data) ==
    Set(DiskGetKwargs(data, Fcoe),
        [nic |-> data.fcoe_nic, identifier |-> data.fcoe_identifier])

\* [kwargs, exc]
DasdGetKwargs(data) ==
    IF ~HasAll(data.dasd_flags, DasdAttrs)
    THEN [kwargs |-> NoKwargs, exc |-> "MissingAttribute"]
    ELSE [kwargs |-> Set(DiskGetKwargs(data, Dasd),
                         [busid |-> data.dasd_bus_id,
                          opts |-> [a \in SeqToSet(DasdAttrs) |-> data.dasd_flags[a]]]),
          exc |-> ""]

\* [kwargs, exc]
ZfcpGetKwargs(data) ==
    IF ~HasAll(data.zfcp_attrs, ZfcpAttrs)
    THEN [kwargs |-> NoKwargs, exc |-> "MissingAttribute"]
    ELSE [kwargs |-> Set(DiskGetKwargs(data, Zfcp),
                         [a \in SeqToSet(ZfcpAttrs) |-> data.zfcp_attrs[a]]),
          exc |-> ""]

----------------------------------------------------------------------------
(* MDBiosRaidDevicePopulator._get_kwargs, run, handle_device                *)
(*                                                                          *)
(* A call threads a call state st:                                          *)
(*   devices   the device tree                                              *)
(*   log       the log.error records, oldest first                          *)
(*   built     the helpers whose _get_kwargs were entered, with the depth   *)
(*   depth     the deepest handle_device nesting entered (0: the caller's)  *)
(*   crec      the container record fetched by the outermost member, if any *)
(*   nested    the names inserted by nested handle_device calls             *)
(* and returns [st, kwargs | device, exc]; exc is "" or the exception that  *)
(* left the call.                                                           *)

StartState(devs) ==
    [devices |-> devs, log |-> <<>>, built |-> <<>>, depth |-> 0,
     crec |-> NotFetched, nested |-> {}]

LogError(st, msg, name) == [st EXCEPT !.log = Append(@, <<msg, name>>)]

\* A mutation of the tail of the MD _get_kwargs: the generic keys are kept.
MdBiosFinishKeepsKeys(kwargs, container, data) ==
    Set(kwargs, [parents |-> <<container>>,
                 level |-> data.md_level,
                 member_devices |-> data.md_devices,
                 uuid |-> data.md_uuid,
                 exists |-> TRUE])

\* A mutation of the tail of the MD _get_kwargs: the parent is left out.
MdBiosFinishNoParent(kwargs, container, data) ==
    Del(Set(kwargs, [parents |-> <<>>,
                     level |-> data.md_level,
                     member_devices |-> data.md_devices,
                     uuid |-> data.md_uuid,
                     exists |-> TRUE]),
        {"model", "serial", "vendor", "bus"})

\* The tail of the MD _get_kwargs, once the container is at hand.
MdBiosFinish(kwargs, container, data) ==
    Del(Set(kwargs, [parents |-> <<container>>,
                     level |-> data.md_level,
                     member_devices |-> data.md_devices,
                     uuid |-> data.md_uuid,
                     exists |-> TRUE]),
        {"model", "serial", "vendor", "bus"})

\* A mutation of the missing-container branch: no early return, the member
\* is built without a container.
MdBiosNoContainerInfoGoesOn(kwargs, st, parent_name, data) ==
    [st |-> LogError(st, "failed to find md container", parent_name),
     kwargs |-> MdBiosFinish(kwargs, NoDevice, data), exc |-> ""]

\* udev has no record of the container: log the error and return None.
MdBiosNoContainerInfo(kwargs, st, parent_name, data) ==
    [st |-> LogError(st, "failed to find md container", parent_name),
     kwargs |-> NoKwargs, exc |-> ""]

RECURSIVE HandleDevice(_, _, _, _)

\* After the nested handle_device(container_info) came back with r.
MdBiosAfterScan(r, kwargs, parent_name, data) ==
    IF r.exc # ""
    THEN [st |-> r.st, kwargs |-> NoKwargs, exc |-> r.exc]
    ELSE LET container == GetDeviceByName(r.st.devices, parent_name)
         IN  IF container = NoDevice
             THEN [st |-> LogError(r.st, "failed to scan md container", parent_name),
                   kwargs |-> NoKwargs, exc |-> ""]
             ELSE [st |-> r.st,
                   kwargs |-> MdBiosFinish(kwargs, container, data),
                   exc |-> ""]

\* The container is not in the tree: fetch its record and scan it.
MdBiosAddContainer(container_info, kwargs, parent_name, data, st, env, depth) ==
    IF container_info = NoRecord
    THEN MdBiosNoContainerInfo(kwargs, st, parent_name, data)
    ELSE IF depth >= MaxDepth
    THEN [st |-> st, kwargs |-> NoKwargs, exc |-> "RecursionError"]
    ELSE MdBiosAfterScan(HandleDevice(container_info, st, env, depth + 1),
                         kwargs, parent_name, data)

MdBiosGetKwargs(data, st, env, depth) ==
    LET kwargs == DiskGetKwargs(data, MdBios)
        parent_path == data.md_container
        parent_name == DevicePathToName(parent_path)
        container == GetDeviceByName(st.devices, parent_name)
    IN  IF container # NoDevice
        THEN [st |-> st, kwargs |-> MdBiosFinish(kwargs, container, data), exc |-> ""]
        ELSE
          LET parent_sys_name == NodeFromName(parent_name)
              container_info == UdevGetDevice(env, parent_sys_name)
          IN  MdBiosAddContainer(
                  container_info, kwargs, parent_name, data,
                  IF depth = 0 THEN [st EXCEPT !.crec = container_info] ELSE st,
                  env, depth)

\* self._get_kwargs() of the helper class cls
GetKwargs(cls, data, st, env, depth) ==
    LET st1 == [st EXCEPT !.built = Append(@, <<cls, depth>>)]
    IN  CASE cls = Disk   -> [st |-> st1, kwargs |-> DiskGetKwargs(data, Disk), exc |-> ""]
          [] cls = Iscsi  -> [st |-> st1, kwargs |-> IscsiGetKwargs(data, initiator), exc |-> ""]
          [] cls = Fcoe   -> [st |-> st1, kwargs |-> FcoeGetKwargs(data), exc |-> ""]
          [] cls = MdBios -> MdBiosGetKwargs(data, st1, env, depth)
          [] cls = Dasd   -> [st |-> st1] @@ DasdGetKwargs(data)
          [] cls = Zfcp   -> [st |-> st1] @@ ZfcpGetKwargs(data)

\* A mutation of the end of run: the device is returned but never added.
RunConstructNoAdd(cls, name, k, depth) ==
    [st |-> k.st, kwargs |-> k.kwargs,
     device |-> [name |-> name, cls |-> DeviceClass(cls), kwargs |-> k.kwargs],
     exc |-> ""]

\* The end of run: construct the device from the kwargs k and add it.
RunConstruct(cls, name, k, depth) ==
    IF k.exc # ""
    THEN [st |-> k.st, kwargs |-> k.kwargs, device |-> NoDevice, exc |-> k.exc]
    ELSE IF k.kwargs = NoKwargs
    THEN \* self._device_class(name, **None)
         [st |-> k.st, kwargs |-> k.kwargs, device |-> NoDevice, exc |-> "TypeError"]
    ELSE
      LET device == [name |-> name, cls |-> DeviceClass(cls), kwargs |-> k.kwargs]
          a == AddDevice(k.st.devices, device)
      IN  IF a.exc # ""
          THEN [st |-> k.st, kwargs |-> k.kwargs, device |-> NoDevice, exc |-> a.exc]
          ELSE [st |-> [k.st EXCEPT !.devices = a.devices,
                                    !.nested = IF depth > 0 THEN @ \cup {name} ELSE @],
                kwargs |-> k.kwargs, device |-> device, exc |-> ""]

\* DiskDevicePopulator.run, inherited by every helper
Run(cls, data, st, env, depth) ==
    RunConstruct(cls, data.name, GetKwargs(cls, data, st, env, depth), depth)

\* handle_device once the helper class is chosen
RunHelper(helper, info, st, env, depth) ==
    IF helper = NoHelper
    THEN [st |-> st, kwargs |-> NoKwargs, device |-> NoDevice, exc |-> "", helper |-> helper]
    ELSE [helper |-> helper] @@ Run(helper, info, st, env, depth)

\* DeviceTree.handle_device: pick the helper and run it.
HandleDevice(info, st, env, depth) ==
    RunHelper(GetDeviceHelper(info, initiator), info,
              [st EXCEPT !.depth = Max(@, depth)], env, depth)

----------------------------------------------------------------------------
(* The state machine *)

Outcome(r) ==
    IF r.exc # "" THEN "Failure"
    ELSE IF r.device = NoDevice THEN "Unhandled"
    ELSE "Device"

NoCall ==
    [op |-> "none", rec |-> NoRecord, selected |-> NoHelper, pre |-> <<>>,
     outcome |-> "none", exc |-> "", log |-> <<>>, built |-> <<>>, depth |-> 0,
     crec |-> NotFetched, kwargs |-> NoKwargs]

Init ==
    /\ devices = <<>>
    /\ initiator \in LocalInitiators
    /\ viaRecursion = {}
    /\ last = NoCall

\* The call's record: its input, what it did and how it ended.
CallRecord(op, rec, selected, outcome, r) ==
    [op |-> op, rec |-> rec, selected |-> selected,
     pre |-> devices, outcome |-> outcome, exc |-> r.exc,
     log |-> r.st.log, built |-> r.st.built, depth |-> r.st.depth,
     crec |-> r.st.crec, kwargs |-> r.kwargs]

\* The enumeration loop hands one record to handle_device.
ClassifyAndInsert(rec, env) ==
    \E r \in {HandleDevice(rec, StartState(devices), env, 0)} :
        /\ devices' = r.st.devices
        /\ viaRecursion' = viaRecursion \cup r.st.nested
        /\ last' = CallRecord("classify", rec, r.helper, Outcome(r), r)
        /\ UNCHANGED initiator

Next == \E rec \in Records : \E env \in EnvsFor(rec) : ClassifyAndInsert(rec, env)

Spec == Init /\ [][Next]_vars

\* A helper's _get_kwargs called on a record directly, without the dispatch.
\* The MD helper is given records that name a container: what blockdev makes
\* of no name at all is not modelled.
BuildParameters(cls, rec, env) ==
    /\ cls = MdBios => rec.md_container # NoPath
    /\ \E r \in {GetKwargs(cls, rec, StartState(devices), env, 0)} :
        /\ devices' = r.st.devices
        /\ viaRecursion' = viaRecursion \cup r.st.nested
        /\ last' = CallRecord("build", rec, cls,
                              IF r.exc # "" THEN "Failure" ELSE "Built", r)
        /\ UNCHANGED initiator

NextBuild ==
    \E cls \in SeqToSet(Helpers) : \E rec \in Records : \E env \in EnvsFor(rec) :
        BuildParameters(cls, rec, env)

SpecBuild == Init /\ [][NextBuild]_vars

----------------------------------------------------------------------------
(* Properties *)

Classified == last.op = "classify"

\* The last call's record was taken by the MD helper.
MemberCall == Classified /\ last.selected = MdBios

ParentName == DevicePathToName(last.rec.md_container)

\* The last call fetched a container record from udev (the container was not
\* in the tree): last.crec is what udev returned.
FetchedContainer == MemberCall /\ last.crec # NotFetched

Before == Len(last.pre)

LastLog == last.log[Len(last.log)]

\* The call failed because run was left without kwargs after the MD helper
\* logged that the container is missing or could not be scanned.
UnresolvedDependency(msg) ==
    /\ last.outcome = "Failure"
    /\ last.exc = "TypeError"
    /\ last.log # <<>>
    /\ LastLog = <<msg, ParentName>>

GenericKeys == {"model", "serial", "vendor", "bus"}
MdKeys == {"parents", "level", "member_devices", "uuid", "exists"}

\* C1: a member whose container is not in the tree and whose container record
\* udev cannot give fails as an unresolved dependency ("failed to find md
\* container" is logged, run raises), and the tree afterwards is the tree
\* before the call: it holds neither the container nor a new member.
C1_MissingContainerRecordFails ==
    (FetchedContainer /\ last.crec = NoRecord) =>
        /\ UnresolvedDependency("failed to find md container")
        /\ devices = last.pre
        /\ ParentName \notin Names(devices)

C1_Witness ==
    /\ FetchedContainer
    /\ last.crec = NoRecord
    /\ last.outcome = "Failure"
    /\ Before > 0

\* C2: a call that ends in MissingAttribute or in an unresolved dependency of
\* its own member leaves the tree as it was before the call.
C2_FailureLeavesTreeUnchanged ==
    (/\ Classified
     /\ \/ last.exc = "MissingAttribute"
        \/ /\ MemberCall
           /\ \/ UnresolvedDependency("failed to find md container")
              \/ UnresolvedDependency("failed to scan md container"))
    => devices = last.pre

\* The two descriptors of a resolved member: the container, then the member
\* whose parents are exactly that container.
ContainerThenMember ==
    /\ last.outcome = "Device"
    /\ Len(devices) = Before + 2
    /\ SubSeq(devices, 1, Before) = last.pre
    /\ devices[Before + 1].name = ParentName
    /\ devices[Before + 2].name = last.rec.name
    /\ devices[Before + 2].cls = "MDBiosRaidArrayDevice"
    /\ devices[Before + 2].kwargs.parents = <<devices[Before + 1]>>
    /\ GetDeviceByName(devices, ParentName) = devices[Before + 1]

\* C3 as stated: whenever the container is not in the tree and udev gives its
\* record, the container and then the member are inserted.
C3_ObtainableRecordInsertsTwo ==
    (FetchedContainer /\ last.crec # NoRecord) => ContainerThenMember

\* The container record is one the dispatch inserts as a plain disk under the
\* container's own name.
PlainContainerRecord ==
    /\ last.crec.is_disk
    /\ last.crec.name = ParentName
    /\ \A cls \in Specialized : ~Match(cls, last.crec, initiator)

\* C3: when the container is not in the tree, udev gives its record, that
\* record is a disk record named as the container and matching no specialised
\* helper, and the member's own name is neither in the tree nor the
\* container's, then the container and then the member are inserted, and the
\* member's parents are exactly the inserted container.
C3_PlainContainerInsertsTwo ==
    (/\ FetchedContainer
     /\ last.crec # NoRecord
     /\ PlainContainerRecord
     /\ last.rec.name \notin Names(last.pre)
     /\ last.rec.name # ParentName)
    => ContainerThenMember

C3_Witness ==
    /\ FetchedContainer
    /\ last.crec # NoRecord
    /\ PlainContainerRecord
    /\ last.rec.name \notin Names(last.pre)
    /\ last.rec.name # ParentName
    /\ Len(devices) = Before + 2
    /\ Before > 0

SpecializedMatching == {cls \in Specialized : Match(cls, last.rec, initiator)}

\* C4: a record that exactly one specialised helper matches is given to that
\* helper, not to the generic one: it is a disk, and every specialised
\* priority is above the generic priority.
C4_OneSpecializedMatchWins ==
    (Classified /\ Cardinality(SpecializedMatching) = 1) =>
        /\ last.selected \in SpecializedMatching
        /\ last.selected # Disk
        /\ DiskMatch(last.rec)
        /\ \A cls \in Specialized : PriorityOf(cls) > PriorityOf(Disk)

C4_Witness ==
    /\ Classified
    /\ Cardinality(SpecializedMatching) = 1
    /\ last.selected = Dasd
    /\ last.outcome = "Device"

UniqueNames(devs) ==
    \A i, j \in 1..Len(devs) : devs[i].name = devs[j].name => i = j

\* C5: every step keeps the names of the tree distinct and keeps every
\* descriptor already in the tree where it was.
C5_InsertedOnceNeverReplaced ==
    [][/\ UniqueNames(devices')
       /\ Len(devices') >= Len(devices)
       /\ SubSeq(devices', 1, Len(devices)) = devices]_vars

\* A container that a nested call inserted has its own record classified
\* later: the insertion fails and the tree is as before.
C5_Witness ==
    /\ Classified
    /\ last.rec.name \in viaRecursion
    /\ last.exc = "DuplicateInsertion"
    /\ devices = last.pre

\* C6: a call nests at most one handle_device call, and no nested call enters
\* the MD helper's _get_kwargs.
C6_ContainerIsLeaf ==
    /\ last.depth <= 1
    /\ \A i \in 1..Len(last.built) :
          last.built[i][2] >= 1 => last.built[i][1] # MdBios

\* C7: the iSCSI _get_kwargs on a record whose initiator is not the local
\* initiator gives no node, ibft false, the offload NIC and the three
\* firmware fields.
C7_OffloadParameters ==
    (/\ last.op = "build"
     /\ last.selected = Iscsi
     /\ last.rec.iscsi_initiator # initiator)
    => /\ last.outcome = "Built"
       /\ last.kwargs.initiator = last.rec.iscsi_initiator
       /\ last.kwargs.node = NoneNode
       /\ last.kwargs.ibft = FALSE
       /\ last.kwargs.nic = "offload:not_accessible_via_iscsiadm"
       /\ {"fw_address", "fw_port", "fw_name"} \subseteq DOMAIN last.kwargs
       /\ last.kwargs.fw_address = last.rec.iscsi_address
       /\ last.kwargs.fw_port = last.rec.iscsi_port
       /\ last.kwargs.fw_name = last.rec.name

C7_Witness ==
    /\ last.op = "build"
    /\ last.selected = Iscsi
    /\ last.rec.is_iscsi
    /\ last.rec.iscsi_initiator = "iqn.other"
    /\ initiator = "iqn.local"
    /\ last.kwargs.node = NoneNode

\* C8: a record that is not a disk matches no helper: the call is unhandled,
\* no _get_kwargs runs and the tree is unchanged.
C8_NonDiskUnhandled ==
    (Classified /\ ~last.rec.is_disk) =>
        /\ \A cls \in SeqToSet(Helpers) : ~Match(cls, last.rec, initiator)
        /\ last.selected = NoHelper
        /\ last.outcome = "Unhandled"
        /\ last.built = <<>>
        /\ devices = last.pre

C8_Witness ==
    /\ Classified
    /\ ~last.rec.is_disk
    /\ last.rec.is_fcoe
    /\ last.outcome = "Unhandled"
    /\ Before > 0

MdContract(kwargs) ==
    /\ DOMAIN kwargs \cap GenericKeys = {}
    /\ MdKeys \subseteq DOMAIN kwargs
    /\ kwargs.exists = TRUE

\* C9: the kwargs the MD helper returns, and those of every MD array in the
\* tree, have none of model, serial, vendor, bus and have parents, level,
\* member_devices, uuid and exists = True, although the generic kwargs the
\* helper starts from have the four generic keys.
C9_MdParametersContract ==
    /\ (MemberCall /\ last.kwargs # NoKwargs) =>
          /\ MdContract(last.kwargs)
          /\ GenericKeys \subseteq DOMAIN DiskGetKwargs(last.rec, MdBios)
    /\ \A i \in 1..Len(devices) :
          devices[i].cls = "MDBiosRaidArrayDevice" => MdContract(devices[i].kwargs)

C9_Witness ==
    /\ MemberCall
    /\ last.kwargs # NoKwargs
    /\ last.outcome = "Device"
    /\ devices[Len(devices)].cls = "MDBiosRaidArrayDevice"

\* C10: the iSCSI helper takes a record only if it is a disk, is iSCSI, and
\* the local initiator is non-empty and equal to the record's; every iSCSI
\* disk in the tree has the local initiator and a resolved node; a record
\* with another initiator is never taken by the iSCSI helper.
C10_IscsiOnlyLocalInitiator ==
    /\ (Classified /\ last.selected = Iscsi) =>
          /\ last.rec.is_disk
          /\ last.rec.is_iscsi
          /\ initiator # ""
          /\ initiator = last.rec.iscsi_initiator
    /\ (Classified /\ last.rec.iscsi_initiator # initiator) =>
          /\ last.selected # Iscsi
          /\ last.outcome = "Device" =>
                devices[Len(devices)].cls # "iScsiDiskDevice"
    /\ \A i \in 1..Len(devices) :
          devices[i].cls = "iScsiDiskDevice" =>
              /\ initiator # ""
              /\ devices[i].kwargs.initiator = initiator
              /\ devices[i].kwargs.node # NoneNode
              /\ "fw_name" \notin DOMAIN devices[i].kwargs

\* An iSCSI record of another initiator is classified after an iSCSI disk of
\* the local initiator is in the tree.
C10_Witness ==
    /\ Classified
    /\ last.rec.is_disk
    /\ last.rec.is_iscsi
    /\ last.rec.iscsi_initiator = "iqn.other"
    /\ initiator = "iqn.local"
    /\ \E i \in 1..Len(devices) : devices[i].cls = "iScsiDiskDevice"

====
